---- MODULE Spec2Model ----
(***************************************************************************)
(* Model of voxceleron::Pipeline (src/engine/vulkan/pipeline/Pipeline.cpp) *)
(* and of the Vulkan objects it owns.  Two actors: the single CPU thread   *)
(* that drives the Pipeline state machine, and the GPU, which finishes     *)
(* queued submissions asynchronously.  A blocking Vulkan wait              *)
(* (vkWaitForFences, vkDeviceWaitIdle) is a position of the CPU thread     *)
(* (pc) that is left only when the awaited condition holds.                *)
(***************************************************************************)
EXTENDS Integers, Sequences, FiniteSets, TLC

\* ---------------------------------------------------------------- bounds
\* number of frame slots N (declared in Pipeline.h)
MAX_FRAMES_IN_FLIGHT == 2
\* largest number of presentable images the swapchain may have
MaxImages == 2
\* number of initialize() runs (handle generations) explored
MaxGen == 2
\* number of initialize() runs in which a GPU call is made to fail
MaxFailures == 1
\* largest number of physical devices vkEnumeratePhysicalDevices reports
MaxDevices == 3
\* number of threads that use the Logger
NumThreads == 2
\* number of entries written to the log file
MaxEntries == 2

Slots == 0 .. (MAX_FRAMES_IN_FLIGHT - 1)
ImageCounts == 1 .. MaxImages

\* ---------------------------------------------------------------- handles
\* A Vulkan handle is <<kind, generation, index>>; vkCreate*/vkAllocate*
\* return a handle that was never returned before (generation = the number
\* of the initialize() run that made the call).
VK_NULL_HANDLE == <<"null", 0, 0>>
H(kind, g, i) == <<kind, g, i>>

\* element i (0-based, as in the source) of a std::vector
At(vec, i) == vec[i + 1]
\* std::vector::resize(n): keeps the first elements, value-initialises the rest
Resize(vec, n) == [i \in 1 .. n |-> IF i <= Len(vec) THEN vec[i] ELSE VK_NULL_HANDLE]
\* resize(n) followed by a loop that stored a new handle in the first `made` elements
Fill(vec, n, kind, g, made) ==
    [i \in 1 .. n |-> IF i <= made THEN H(kind, g, i) ELSE Resize(vec, n)[i]]
Range(vec) == {vec[i] : i \in 1 .. Len(vec)}

\* ---------------------------------------------------------------- results
VkAcquireResults == {"VK_SUCCESS", "VK_SUBOPTIMAL_KHR", "VK_ERROR_OUT_OF_DATE_KHR", "VK_ERROR_SURFACE_LOST_KHR"}
VkPresentResults == {"VK_SUCCESS", "VK_SUBOPTIMAL_KHR", "VK_ERROR_OUT_OF_DATE_KHR", "VK_ERROR_SURFACE_LOST_KHR"}

\* ---------------------------------------------------------------- state
VARIABLES
    state,              \* Pipeline::state
    currentFrame,       \* Pipeline::currentFrame (active slot index)
    currentImageIndex,  \* Pipeline::currentImageIndex
    lastError,          \* message stored by setError
    owned,              \* the handle members of Pipeline (record, fields named as the members)
    gen,                \* number of initialize() runs so far (handle generation)
    failures,           \* number of calls so far that were made to fail (injected GPU failure or rejected call)
    live,               \* device: handles created and not destroyed
    fenceSignaled,      \* device: per slot, is inFlightFences[slot] signaled
    cbState,            \* device: per slot, life-cycle state of commandBuffers[slot]
    uboWritten,         \* per slot, has the mapped uniform block been written since creation
    gpuQueue,           \* device: submissions queued and not yet finished, in submission order
    imageCount,         \* swapchain: number of presentable images (SwapChain::getImages().size())
    pc,                 \* position of the CPU thread
    frameOpen,          \* caller: a successful beginFrame is awaiting its endFrame
    semSignal,          \* device: per semaphore, Unsignaled or the image whose operation signaled it
    presentQueue,       \* device: presentation requests queued by vkQueuePresentKHR, oldest first
    acquiredImages,     \* surface: images acquired by the application and not yet presented
    last,               \* the call that completed last, with its return value and injected GPU
                        \* results (NoCall while a call is blocked in a wait)
    devices,            \* instance: the physical devices vkEnumeratePhysicalDevices reports, in order
    deviceExtensions,   \* VulkanContext::deviceExtensions (the required device extensions)
    physicalDevice,     \* VulkanContext::physicalDevice (index into devices, NoDevicePicked = VK_NULL_HANDLE)
    pickReturned,       \* has pickPhysicalDevice been called and returned
    pickRet,            \* the value pickPhysicalDevice returned
    enabledLevels,      \* Logger::enabledLevels
    logMutex,           \* Logger::logMutex: the thread that holds it, or Unlocked
    logFile,            \* Logger::logFile: number of entries written
    tpc,                \* per thread, its position in a Logger member function
    targ                \* per thread, the arguments of the call it is in

pipelineVars == <<state, currentFrame, currentImageIndex, lastError, owned, gen, failures, live,
                  fenceSignaled, cbState, uboWritten, gpuQueue, imageCount, pc, frameOpen, last,
                  semSignal, presentQueue, acquiredImages>>
contextVars == <<devices, deviceExtensions, physicalDevice, pickReturned, pickRet>>
loggerVars == <<enabledLevels, logMutex, logFile, tpc, targ>>
vars == <<pipelineVars, contextVars, loggerVars>>

\* ---------------------------------------------------------------- construction
\* value of a handle member that the constructor's initializer list leaves to
\* its declaration in Pipeline.h (descriptorSetLayout, descriptorPool)
DeclaredDefault == VK_NULL_HANDLE

\* Pipeline::Pipeline: every handle null, every collection empty
EmptyOwned ==
    [ descriptorSetLayout |-> DeclaredDefault,
      renderPass |-> VK_NULL_HANDLE,
      pipelineLayout |-> VK_NULL_HANDLE,
      graphicsPipeline |-> VK_NULL_HANDLE,
      descriptorPool |-> DeclaredDefault,
      framebuffers |-> <<>>,
      commandPools |-> <<>>,
      commandBuffers |-> <<>>,
      uniformBuffers |-> <<>>,
      uniformBuffersMemory |-> <<>>,
      uniformBuffersMapped |-> <<>>,
      descriptorSets |-> <<>>,
      imageAvailableSemaphores |-> <<>>,
      renderFinishedSemaphores |-> <<>>,
      inFlightFences |-> <<>> ]

\* binary semaphores of the device, by collection and slot
SemaphoreKinds == {"imageAvailableSemaphore", "renderFinishedSemaphore"}
Unsignaled == 0 - 1
NoSignals == [k \in SemaphoreKinds \X Slots |-> Unsignaled]
SemKey(h) == <<h[1], h[3] - 1>>

NoCall == [op |-> "none", ret |-> TRUE, acquire |-> "none", present |-> "none",
           fail |-> <<0, 0>>, err |-> FALSE, destroyed |-> <<>>]

\* VulkanContext::VulkanContext: no physical device selected
NoDevicePicked == 0
ContextConstructed ==
    /\ physicalDevice = NoDevicePicked
    /\ pickReturned = FALSE
    /\ pickRet = FALSE

\* Logger::Logger: every level enabled, no thread in a member function
Threads == 1 .. NumThreads
LogLevels == {"INFO", "WARNING"}
Unlocked == 0
LoggerConstructed ==
    /\ enabledLevels = [l \in LogLevels |-> TRUE]
    /\ logMutex = Unlocked
    /\ logFile = 0
    /\ tpc = [t \in Threads |-> "idle"]
    /\ targ = [t \in Threads |-> <<"INFO", TRUE>>]

\* Pipeline::Pipeline
PipelineConstructed ==
    /\ state = "UNINITIALIZED"
    /\ currentFrame = 0
    /\ currentImageIndex = 0
    /\ lastError = ""
    /\ owned = EmptyOwned
    /\ gen = 0
    /\ failures = 0
    /\ live = {}
    /\ fenceSignaled = [i \in Slots |-> FALSE]
    /\ cbState = [i \in Slots |-> "none"]
    /\ uboWritten = [i \in Slots |-> FALSE]
    /\ gpuQueue = <<>>
    /\ imageCount \in ImageCounts
    /\ pc = "idle"
    /\ frameOpen = FALSE
    /\ last = NoCall
    /\ semSignal = NoSignals
    /\ presentQueue = <<>>
    /\ acquiredImages = {}

\* the pipeline with its device: the context has not selected a device from
\* a list and no thread logs
Init ==
    /\ PipelineConstructed
    /\ ContextConstructed /\ devices = <<>> /\ deviceExtensions = {}
    /\ LoggerConstructed

\* ---------------------------------------------------------------- initialize
\* the build sequence of Pipeline::initialize, in the order of its || chain
BuildStepsTargetsFirst ==
    << "createDescriptorSetLayout", "createFramebuffers", "createRenderPass",
       "createGraphicsPipeline", "createCommandPools", "createCommandBuffers",
       "createUniformBuffers", "createDescriptorPool", "createDescriptorSets",
       "createSyncObjects", "createVertexBuffer" >>
BuildSteps ==
    << "createDescriptorSetLayout", "createRenderPass", "createGraphicsPipeline",
       "createFramebuffers", "createCommandPools", "createCommandBuffers",
       "createUniformBuffers", "createDescriptorPool", "createDescriptorSets",
       "createSyncObjects", "createVertexBuffer" >>

StepIx(name) == CHOOSE i \in 1 .. Len(BuildSteps) : BuildSteps[i] = name

\* number of places where a step can fail, with n presentable images.
\* createGraphicsPipeline: 1 = vertex module fails, 2 = fragment module fails,
\* 3 = both fail, 4 = vkCreatePipelineLayout fails, 5 = vkCreateGraphicsPipelines fails.
\* createUniformBuffers: per slot vkCreateBuffer, then vkAllocateMemory.
\* createSyncObjects: per slot two vkCreateSemaphore, then vkCreateFence.
\* createVertexBuffer cannot fail.
Calls(name, n) ==
    CASE name = "createGraphicsPipeline" -> 5
      [] name = "createFramebuffers" -> n
      [] name = "createCommandPools" -> MAX_FRAMES_IN_FLIGHT
      [] name = "createCommandBuffers" -> MAX_FRAMES_IN_FLIGHT
      [] name = "createUniformBuffers" -> 2 * MAX_FRAMES_IN_FLIGHT
      [] name = "createSyncObjects" -> 3 * MAX_FRAMES_IN_FLIGHT
      [] name = "createVertexBuffer" -> 0
      [] OTHER -> 1

\* an injected failure <<step, call>>: the call-th fallible GPU call of the
\* step-th build step fails; <<0, 0>> = every call succeeds; <<0, i>> = no
\* build step fails but vkMapMemory of slot i-1 returns an error, which
\* createUniformBuffers does not look at
NoFail == <<0, 0>>
FailPoints(n) ==
    {NoFail} \cup {<<0, i>> : i \in 1 .. MAX_FRAMES_IN_FLIGHT} \cup
    UNION {{<<s, k>> : k \in 1 .. Calls(BuildSteps[s], n)} : s \in 1 .. Len(BuildSteps)}

\* the failures that can be injected into one build, per number of images
FailPointsOf == [n \in ImageCounts |-> FailPoints(n)]

\* vkMapMemory fails for element i (1-based) of uniformBuffersMapped
MapFails(f, i) == f[1] = 0 /\ f[2] = i

\* the build steps that run: the || chain stops at the first failing step
StepsRunAll(f) == BuildSteps
StepsRun(f) == IF f[1] = 0 THEN BuildSteps ELSE SubSeq(BuildSteps, 1, f[1])

Ran(f, name) == LET run == StepsRun(f) IN \E i \in 1 .. Len(run) : run[i] = name
\* number of creation calls of step `name` (out of total) that succeeded
Made(f, name, total) ==
    IF ~Ran(f, name) THEN 0
    ELSE IF f[1] = StepIx(name) THEN f[2] - 1 ELSE total
\* the way createGraphicsPipeline fails (0 = it succeeds)
GpFail(f) == IF f[1] = StepIx("createGraphicsPipeline") THEN f[2] ELSE 0

\* initialize() runs its build chain only in state UNINITIALIZED
InitializeAllowedAlways(s) == TRUE
InitializeAllowed(s) == s = "UNINITIALIZED"

\* return value of initialize() called in state UNINITIALIZED
InitializeResult(f) == f[1] = 0
\* state after initialize(): READY only when the whole chain succeeded
InitializeStateAlwaysReady(s, f) == "READY"
InitializeState(s, f) == IF InitializeResult(f) THEN "READY" ELSE s

\* message given to setError by the failing step
StepError(f) ==
    CASE f[1] = 0 -> ""
      [] BuildSteps[f[1]] = "createDescriptorSetLayout" -> "Failed to create descriptor set layout"
      [] BuildSteps[f[1]] = "createRenderPass" -> "Failed to create render pass"
      [] BuildSteps[f[1]] = "createGraphicsPipeline" ->
            (IF f[2] <= 3 THEN "Failed to create shader modules"
             ELSE IF f[2] = 4 THEN "Failed to create pipeline layout"
             ELSE "Failed to create graphics pipeline")
      [] BuildSteps[f[1]] = "createFramebuffers" -> "Failed to create framebuffer"
      [] BuildSteps[f[1]] = "createCommandPools" -> "Failed to create command pool"
      [] BuildSteps[f[1]] = "createCommandBuffers" -> "Failed to allocate command buffers"
      [] BuildSteps[f[1]] = "createUniformBuffers" ->
            (IF f[2] % 2 = 1 THEN "Failed to create uniform buffer"
             ELSE "Failed to allocate uniform buffer memory")
      [] BuildSteps[f[1]] = "createDescriptorPool" -> "Failed to create descriptor pool"
      [] BuildSteps[f[1]] = "createDescriptorSets" -> "Failed to allocate descriptor sets"
      [] OTHER -> "Failed to create synchronization objects"

\* createFramebuffers: one framebuffer per presentable image
FramebufferCountFixed(n) == MAX_FRAMES_IN_FLIGHT
FramebufferCount(n) == n

\* the handle members after initialize() ran on members o, with injected
\* failure f, as run number g, with n presentable images
InitializeOwned(o, f, g, n) ==
    LET N == MAX_FRAMES_IN_FLIGHT
        ub == Made(f, "createUniformBuffers", 2 * N)
        sy == Made(f, "createSyncObjects", 3 * N)
        ds == IF Made(f, "createDescriptorSets", 1) = 1 THEN N ELSE 0
    IN [ descriptorSetLayout |->
            IF Made(f, "createDescriptorSetLayout", 1) = 1
            THEN H("descriptorSetLayout", g, 1) ELSE o.descriptorSetLayout,
         renderPass |->
            IF Made(f, "createRenderPass", 1) = 1
            THEN H("renderPass", g, 1) ELSE o.renderPass,
         pipelineLayout |->
            IF Ran(f, "createGraphicsPipeline") /\ GpFail(f) \in {0, 5}
            THEN H("pipelineLayout", g, 1) ELSE o.pipelineLayout,
         graphicsPipeline |->
            IF Ran(f, "createGraphicsPipeline") /\ GpFail(f) = 0
            THEN H("graphicsPipeline", g, 1) ELSE o.graphicsPipeline,
         framebuffers |->
            IF Ran(f, "createFramebuffers")
            THEN Fill(o.framebuffers, FramebufferCount(n), "framebuffer", g,
                      Made(f, "createFramebuffers", FramebufferCount(n)))
            ELSE o.framebuffers,
         commandPools |->
            IF Ran(f, "createCommandPools")
            THEN Fill(o.commandPools, N, "commandPool", g, Made(f, "createCommandPools", N))
            ELSE o.commandPools,
         commandBuffers |->
            IF Ran(f, "createCommandBuffers")
            THEN Fill(o.commandBuffers, N, "commandBuffer", g, Made(f, "createCommandBuffers", N))
            ELSE o.commandBuffers,
         uniformBuffers |->
            IF Ran(f, "createUniformBuffers")
            THEN Fill(o.uniformBuffers, N, "uniformBuffer", g, (ub + 1) \div 2)
            ELSE o.uniformBuffers,
         uniformBuffersMemory |->
            IF Ran(f, "createUniformBuffers")
            THEN Fill(o.uniformBuffersMemory, N, "uniformBufferMemory", g, ub \div 2)
            ELSE o.uniformBuffersMemory,
         uniformBuffersMapped |->
            IF Ran(f, "createUniformBuffers")
            THEN [i \in 1 .. N |->
                     IF MapFails(f, i) THEN Resize(o.uniformBuffersMapped, N)[i]
                     ELSE Fill(o.uniformBuffersMapped, N, "mapped", g, ub \div 2)[i]]
            ELSE o.uniformBuffersMapped,
         descriptorPool |->
            IF Made(f, "createDescriptorPool", 1) = 1
            THEN H("descriptorPool", g, 1) ELSE o.descriptorPool,
         descriptorSets |->
            IF Ran(f, "createDescriptorSets")
            THEN Fill(o.descriptorSets, N, "descriptorSet", g, ds)
            ELSE o.descriptorSets,
         imageAvailableSemaphores |->
            IF Ran(f, "createSyncObjects")
            THEN Fill(o.imageAvailableSemaphores, N, "imageAvailableSemaphore", g, (sy + 2) \div 3)
            ELSE o.imageAvailableSemaphores,
         renderFinishedSemaphores |->
            IF Ran(f, "createSyncObjects")
            THEN Fill(o.renderFinishedSemaphores, N, "renderFinishedSemaphore", g, (sy + 1) \div 3)
            ELSE o.renderFinishedSemaphores,
         inFlightFences |->
            IF Ran(f, "createSyncObjects")
            THEN Fill(o.inFlightFences, N, "fence", g, sy \div 3)
            ELSE o.inFlightFences ]

\* all handles of generation g held in members o
OwnedOfGen(o, g) ==
    {h \in {o.descriptorSetLayout, o.renderPass, o.pipelineLayout, o.graphicsPipeline, o.descriptorPool}
           \cup Range(o.framebuffers) \cup Range(o.commandPools) \cup Range(o.commandBuffers)
           \cup Range(o.uniformBuffers) \cup Range(o.uniformBuffersMemory)
           \cup Range(o.descriptorSets) \cup Range(o.imageAvailableSemaphores)
           \cup Range(o.renderFinishedSemaphores) \cup Range(o.inFlightFences) :
        h[2] = g /\ h # VK_NULL_HANDLE}

\* shader modules created by createGraphicsPipeline and not destroyed before it returns
ShaderModulesLeft(f, g) ==
    IF ~Ran(f, "createGraphicsPipeline") THEN {}
    ELSE CASE GpFail(f) = 1 -> {H("shaderModule", g, 2)}
           [] GpFail(f) = 2 -> {H("shaderModule", g, 1)}
           [] GpFail(f) = 4 -> {H("shaderModule", g, 1), H("shaderModule", g, 2)}
           [] OTHER -> {}

\* device objects created by this initialize() run and alive when it returns
InitializeLive(o, f, g, n) ==
    OwnedOfGen(InitializeOwned(o, f, g, n), g) \cup ShaderModulesLeft(f, g)
\* ---------------------------------------------------------------- cleanup
\* the destroy calls of Pipeline::cleanup in program order, as the sequence of
\* the handles destroyed (a destroy call on VK_NULL_HANDLE, or one skipped by
\* a null check, destroys nothing)
NonNull(seq) == SelectSeq(seq, LAMBDA h : h # VK_NULL_HANDLE)

\* the loop over uniformBuffers: vkDestroyBuffer, then vkFreeMemory, per slot
RECURSIVE UniformDestroys(_, _)
UniformDestroys(o, i) ==
    IF i >= Len(o.uniformBuffers) THEN <<>>
    ELSE <<At(o.uniformBuffers, i), At(o.uniformBuffersMemory, i)>> \o UniformDestroys(o, i + 1)

\* the descriptor pool, whose sets die with it, then the descriptor set layout
DescriptorDestroysLayoutFirst(o) ==
    <<o.descriptorSetLayout, o.descriptorPool>>
    \o (IF o.descriptorPool = VK_NULL_HANDLE THEN <<>> ELSE o.descriptorSets)
DescriptorDestroys(o) ==
    <<o.descriptorPool>>
    \o (IF o.descriptorPool = VK_NULL_HANDLE THEN <<>> ELSE o.descriptorSets)
    \o <<o.descriptorSetLayout>>

\* the loop over MAX_FRAMES_IN_FLIGHT: both semaphores, then the fence, per slot
RECURSIVE SyncDestroys(_, _)
SyncDestroys(o, i) ==
    IF i >= MAX_FRAMES_IN_FLIGHT THEN <<>>
    ELSE (IF Len(o.imageAvailableSemaphores) > i THEN <<At(o.imageAvailableSemaphores, i)>> ELSE <<>>)
         \o (IF Len(o.renderFinishedSemaphores) > i THEN <<At(o.renderFinishedSemaphores, i)>> ELSE <<>>)
         \o (IF Len(o.inFlightFences) > i THEN <<At(o.inFlightFences, i)>> ELSE <<>>)
         \o SyncDestroys(o, i + 1)

\* the loop over commandPools: each pool, whose command buffer dies with it
RECURSIVE PoolDestroys(_, _)
PoolDestroys(o, i) ==
    IF i >= Len(o.commandPools) THEN <<>>
    ELSE (IF At(o.commandPools, i) = VK_NULL_HANDLE THEN <<>>
          ELSE <<At(o.commandPools, i)>>
               \o (IF i < Len(o.commandBuffers) THEN <<At(o.commandBuffers, i)>> ELSE <<>>))
         \o PoolDestroys(o, i + 1)

CleanupSequence(o) ==
    NonNull(UniformDestroys(o, 0) \o DescriptorDestroys(o) \o SyncDestroys(o, 0)
            \o PoolDestroys(o, 0) \o o.framebuffers
            \o <<o.graphicsPipeline, o.pipelineLayout, o.renderPass>>)

\* handles that Pipeline::cleanup passes to vkDestroy*/vkFree* (vkDestroy* of
\* VK_NULL_HANDLE is a no-op), plus the command buffers and descriptor sets
\* that die with their pool
CleanupDestroyed(o) == Range(CleanupSequence(o))

\* cleanup() ends with state = State::UNINITIALIZED
CleanupStateKept(s) == s
CleanupState(s) == "UNINITIALIZED"

\* cleanup() without the clear() of the three synchronization vectors
CleanupOwnedNoClear(o) ==
    [ o EXCEPT !.uniformBuffers = <<>>, !.uniformBuffersMemory = <<>>,
               !.uniformBuffersMapped = <<>>,
               !.descriptorPool = VK_NULL_HANDLE, !.descriptorSetLayout = VK_NULL_HANDLE,
               !.framebuffers = <<>>,
               !.graphicsPipeline = VK_NULL_HANDLE, !.pipelineLayout = VK_NULL_HANDLE,
               !.renderPass = VK_NULL_HANDLE,
               !.commandBuffers = <<>>, !.commandPools = <<>>, !.descriptorSets = <<>> ]
\* the handle members after cleanup(): every handle null, every vector cleared
CleanupOwned(o) ==
    [ o EXCEPT !.uniformBuffers = <<>>, !.uniformBuffersMemory = <<>>,
               !.uniformBuffersMapped = <<>>,
               !.descriptorPool = VK_NULL_HANDLE, !.descriptorSetLayout = VK_NULL_HANDLE,
               !.framebuffers = <<>>,
               !.graphicsPipeline = VK_NULL_HANDLE, !.pipelineLayout = VK_NULL_HANDLE,
               !.renderPass = VK_NULL_HANDLE,
               !.imageAvailableSemaphores = <<>>, !.renderFinishedSemaphores = <<>>,
               !.inFlightFences = <<>>, !.commandBuffers = <<>>, !.commandPools = <<>>,
               !.descriptorSets = <<>> ]

\* recreateIfNeeded: the framebuffers copied to oldFramebuffers before
\* framebuffers.clear(), each destroyed when not null
OldFramebuffersAfterClear(o) == {}
OldFramebuffers(o) == Range(o.framebuffers) \ {VK_NULL_HANDLE}
\* the vkDestroyFramebuffer calls of that loop, in order
OldFramebufferDestroys(o) == SelectSeq(o.framebuffers, LAMBDA h : h \in OldFramebuffers(o))
\* recreateIfNeeded: framebuffers.clear() after the copy to oldFramebuffers
ClearFramebuffersSkipped(o) == o
ClearFramebuffers(o) == [o EXCEPT !.framebuffers = <<>>]

\* ---------------------------------------------------------------- device
\* vkWaitForFences(inFlightFences[i], UINT64_MAX) returns once the fence is signaled
FenceWaitSkipped(i) == TRUE
FenceWaitDone(i) == fenceSignaled[i]

\* vkDeviceWaitIdle returns once no queued submission is unfinished
WaitIdleSkipped == TRUE
WaitIdleDone == gpuQueue = <<>> /\ presentQueue = <<>>

NoDevice == [i \in Slots |-> FALSE]
NoCommandBuffers == [i \in Slots |-> "none"]

\* was element i (0-based) of vec created by run g
IsNew(vec, i, g) == i + 1 <= Len(vec) /\ vec[i + 1] # VK_NULL_HANDLE /\ vec[i + 1][2] = g

\* handles referenced by the submission that endFrame makes for slot i
SubmissionRefs(o, i, img) ==
    { At(o.commandBuffers, i), At(o.commandPools, i), At(o.inFlightFences, i),
      At(o.imageAvailableSemaphores, i), At(o.renderFinishedSemaphores, i),
      At(o.uniformBuffers, i), At(o.uniformBuffersMemory, i), At(o.descriptorSets, i),
      o.descriptorPool, o.renderPass, o.graphicsPipeline, o.pipelineLayout }
    \cup (IF img + 1 <= Len(o.framebuffers) THEN {At(o.framebuffers, img)} ELSE {})

\* beginFrame: the semaphore handed to vkAcquireNextImageKHR
AcquireSemaphoreFixed(o, i) == At(o.imageAvailableSemaphores, 0)
AcquireSemaphore(o, i) == At(o.imageAvailableSemaphores, i)

\* endFrame: VkSubmitInfo and the fence handed to vkQueueSubmit for slot i
SubmitInfo(o, i) ==
    [ wait |-> At(o.imageAvailableSemaphores, i),
      cmd |-> At(o.commandBuffers, i),
      signal |-> At(o.renderFinishedSemaphores, i),
      fence |-> At(o.inFlightFences, i) ]

\* endFrame: VkPresentInfoKHR for slot i and image img
PresentInfoOnAcquire(o, i, img) == [wait |-> At(o.imageAvailableSemaphores, i), image |-> img]
PresentInfo(o, i, img) == [wait |-> At(o.renderFinishedSemaphores, i), image |-> img]

\* a queued operation starts once the semaphore it waits on is signaled
WaitSatisfied(h) == semSignal[SemKey(h)] # Unsignaled

\* ---------------------------------------------------------------- frame helpers
\* beginFrame goes past its first check only in state READY
BeginFrameAllowedAlways(s) == TRUE
BeginFrameAllowed(s) == s = "READY"

\* recreateIfNeeded goes past its first check only in state RECREATING
RecreateNeededAlways(s) == TRUE
RecreateNeeded(s) == s = "RECREATING"

\* endFrame: currentFrame = (currentFrame + 1) % MAX_FRAMES_IN_FLIGHT
NextFrameStuck(i) == i
NextFrame(i) == (i + 1) % MAX_FRAMES_IN_FLIGHT

\* beginFrame, after vkAcquireNextImageKHR returned r
AcquireProceedsAlways(r) == TRUE
AcquireProceeds(r) == r \in {"VK_SUCCESS", "VK_SUBOPTIMAL_KHR"}
StateAfterAcquireSuboptimal(s, r) ==
    IF r \in {"VK_ERROR_OUT_OF_DATE_KHR", "VK_SUBOPTIMAL_KHR"} THEN "RECREATING" ELSE s
StateAfterAcquire(s, r) == IF r = "VK_ERROR_OUT_OF_DATE_KHR" THEN "RECREATING" ELSE s

\* endFrame, after vkQueuePresentKHR returned r
PresentIsStale(r) == r \in {"VK_ERROR_OUT_OF_DATE_KHR", "VK_SUBOPTIMAL_KHR"}
StateAfterPresentIgnored(s, r) == s
StateAfterPresent(s, r) == IF PresentIsStale(r) THEN "RECREATING" ELSE s
\* endFrame returns false before the slot advance when presentation failed otherwise
PresentFailsStale(r) == r # "VK_SUCCESS"
PresentFails(r) == r # "VK_SUCCESS" /\ ~PresentIsStale(r)

\* the record of a completed call: operation, return value, the results
\* injected into its GPU calls, whether it called setError, and the handles
\* it passed to vkDestroy*/vkFree*, in the order of the calls
Call(op, ret, acq, pres, f, err) ==
    [op |-> op, ret |-> ret, acquire |-> acq, present |-> pres, fail |-> f, err |-> err,
     destroyed |-> <<>>]
Destroying(call, seq) == [call EXCEPT !.destroyed = seq]
\* a frame call in which a GPU call was made to fail (a result that reports
\* a stale or suboptimal surface is not a failure)
FrameFailure(ok1, ok2, r) == ~ok1 \/ ~ok2 \/ r = "VK_ERROR_SURFACE_LOST_KHR"
\* the number of failures made to happen in one behaviour is bounded
Injected(failed) ==
    /\ failed => failures < MaxFailures
    /\ failures' = IF failed THEN failures + 1 ELSE failures
\* ---------------------------------------------------------------- actions
\* the body of initialize() past its state guard, run on member values o, live
\* set lv and per-slot device states fs, cs, uw, with injected failure f
Build(o, lv, fs, cs, uw, ss, f) ==
    LET g == gen + 1
        o2 == InitializeOwned(o, f, g, imageCount)
    IN /\ Injected(f # NoFail)
       /\ gen' = g
       /\ owned' = o2
       /\ live' = lv \cup InitializeLive(o, f, g, imageCount)
       /\ state' = InitializeState("UNINITIALIZED", f)
       /\ lastError' = IF InitializeResult(f) THEN lastError ELSE StepError(f)
       \* VK_FENCE_CREATE_SIGNALED_BIT
       /\ fenceSignaled' = [i \in Slots |-> IF IsNew(o2.inFlightFences, i, g) THEN TRUE ELSE fs[i]]
       /\ cbState' = [i \in Slots |-> IF IsNew(o2.commandBuffers, i, g) THEN "initial" ELSE cs[i]]
       /\ uboWritten' = [i \in Slots |-> IF IsNew(o2.uniformBuffersMapped, i, g) THEN FALSE ELSE uw[i]]
       /\ semSignal' = [k \in SemaphoreKinds \X Slots |->
                            IF \/ k[1] = "imageAvailableSemaphore" /\ IsNew(o2.imageAvailableSemaphores, k[2], g)
                               \/ k[1] = "renderFinishedSemaphore" /\ IsNew(o2.renderFinishedSemaphores, k[2], g)
                            THEN Unsignaled ELSE ss[k]]

\* Pipeline::initialize.  The caller does not retry a failed build on the
\* partial state it left: initialize() runs in state UNINITIALIZED only on a
\* pipeline that was just constructed or cleaned up.
Initialize(f) ==
    /\ pc = "idle"
    /\ IF ~InitializeAllowed(state)
       THEN /\ f = NoFail
            /\ lastError' = "Pipeline is already initialized"
            /\ last' = Call("initialize", FALSE, "none", "none", NoFail, TRUE)
            /\ Injected(TRUE)
            /\ UNCHANGED <<state, owned, gen, live, fenceSignaled, cbState, uboWritten,
                           semSignal>>
       ELSE /\ gen < MaxGen
            /\ state = "UNINITIALIZED" => owned = EmptyOwned
            /\ Build(owned, live, fenceSignaled, cbState, uboWritten, semSignal, f)
            /\ last' = Call("initialize", InitializeResult(f), "none", "none", f, ~InitializeResult(f))
    /\ UNCHANGED <<currentFrame, currentImageIndex, gpuQueue, imageCount, pc, frameOpen,
                   presentQueue, acquiredImages>>

\* Pipeline::cleanup (also run by ~Pipeline): enters vkDeviceWaitIdle
Cleanup ==
    /\ pc = "idle"
    /\ pc' = "cleanup_wait"
    /\ last' = NoCall
    /\ UNCHANGED <<state, currentFrame, currentImageIndex, lastError, owned, gen, failures, live,
                   fenceSignaled, cbState, uboWritten, gpuQueue, imageCount, frameOpen,
                   semSignal, presentQueue, acquiredImages>>

\* Pipeline::cleanup after vkDeviceWaitIdle returned
CleanupResume ==
    /\ pc = "cleanup_wait"
    /\ WaitIdleDone
    /\ pc' = "idle"
    /\ live' = live \ CleanupDestroyed(owned)
    /\ owned' = CleanupOwned(owned)
    /\ state' = CleanupState(state)
    /\ fenceSignaled' = NoDevice
    /\ cbState' = NoCommandBuffers
    /\ uboWritten' = NoDevice
    /\ semSignal' = NoSignals
    /\ frameOpen' = FALSE
    /\ last' = Destroying(Call("cleanup", TRUE, "none", "none", NoFail, FALSE), CleanupSequence(owned))
    /\ UNCHANGED <<currentFrame, currentImageIndex, lastError, gen, failures, gpuQueue, imageCount,
                   presentQueue, acquiredImages>>

\* Pipeline::beginFrame up to vkWaitForFences
BeginFrame ==
    /\ pc = "idle"
    /\ IF ~BeginFrameAllowed(state)
       THEN /\ lastError' = "Pipeline is not in ready state"
            /\ last' = Call("beginFrame", FALSE, "none", "none", NoFail, TRUE)
            /\ pc' = pc
            /\ Injected(TRUE)
       ELSE /\ pc' = "beginFrame_wait"
            /\ last' = NoCall
            /\ UNCHANGED <<lastError, failures>>
    /\ UNCHANGED <<state, currentFrame, currentImageIndex, owned, gen, live,
                   fenceSignaled, cbState, uboWritten, gpuQueue, imageCount, frameOpen,
                   semSignal, presentQueue, acquiredImages>>

\* updateUniformBuffer(i): memcpy(uniformBuffersMapped[i], ...) writes through a
\* null pointer when the slot's mapping was never established
MemcpyFaults(i) == At(owned.uniformBuffersMapped, i) = VK_NULL_HANDLE

\* vkAcquireNextImageKHR hands out an image the application does not hold, and
\* on success queues the signal of the semaphore it was given
ImageAcquired(r) == r \in {"VK_SUCCESS", "VK_SUBOPTIMAL_KHR"}
AcquireReturns(r, img) == ImageAcquired(r) => img \notin acquiredImages
AcquiredAfter(r, img) == IF ImageAcquired(r) THEN acquiredImages \cup {img} ELSE acquiredImages
SignalsAfterAcquire(i, r, img) ==
    IF ImageAcquired(r)
    THEN [semSignal EXCEPT ![SemKey(AcquireSemaphore(owned, i))] = img]
    ELSE semSignal

\* Pipeline::beginFrame after vkWaitForFences returned: vkAcquireNextImageKHR
\* returns r (and image index img), vkBeginCommandBuffer succeeds iff beginOk
BeginFrameResume(r, img, beginOk) ==
    LET i == currentFrame
        go == AcquireProceeds(r)
    IN /\ pc = "beginFrame_wait"
       /\ FenceWaitDone(i)
       /\ ~go => (img = 0 /\ beginOk)
       /\ Injected(FrameFailure(beginOk, TRUE, r))
       /\ AcquireReturns(r, img)
       /\ acquiredImages' = AcquiredAfter(r, img)
       /\ semSignal' = SignalsAfterAcquire(i, r, img)
       /\ ~(go /\ beginOk /\ MemcpyFaults(i))
       /\ pc' = "idle"
       /\ state' = StateAfterAcquire(state, r)
       /\ currentImageIndex' = IF r \in {"VK_SUCCESS", "VK_SUBOPTIMAL_KHR"} THEN img ELSE currentImageIndex
       /\ fenceSignaled' = IF go THEN [fenceSignaled EXCEPT ![i] = FALSE] ELSE fenceSignaled
       /\ cbState' = IF go THEN [cbState EXCEPT ![i] = IF beginOk THEN "recording" ELSE "initial"]
                     ELSE cbState
       /\ uboWritten' = IF go /\ beginOk THEN [uboWritten EXCEPT ![i] = TRUE] ELSE uboWritten
       /\ frameOpen' = (go /\ beginOk)
       /\ lastError' = IF go /\ ~beginOk THEN "Failed to begin recording command buffer"
                       ELSE IF ~go /\ r # "VK_ERROR_OUT_OF_DATE_KHR" THEN "Failed to acquire swap chain image"
                       ELSE lastError
       /\ last' = Call("beginFrame", go /\ beginOk, r, "none", NoFail,
                       (go /\ ~beginOk) \/ (~go /\ r # "VK_ERROR_OUT_OF_DATE_KHR"))
       /\ UNCHANGED <<currentFrame, owned, gen, live, gpuQueue, imageCount, presentQueue>>

\* Pipeline::beginFrame reaching updateUniformBuffer with a null mapping: the
\* fence and the recorder were reset, the recording and the render pass
\* begun, and the memcpy through the null pointer ends the process
BeginFrameFault(r, img) ==
    LET i == currentFrame
    IN /\ pc = "beginFrame_wait"
       /\ FenceWaitDone(i)
       /\ AcquireProceeds(r)
       /\ MemcpyFaults(i)
       /\ AcquireReturns(r, img)
       /\ acquiredImages' = AcquiredAfter(r, img)
       /\ semSignal' = SignalsAfterAcquire(i, r, img)
       /\ pc' = "crashed"
       /\ currentImageIndex' = img
       /\ fenceSignaled' = [fenceSignaled EXCEPT ![i] = FALSE]
       /\ cbState' = [cbState EXCEPT ![i] = "recording"]
       /\ UNCHANGED <<state, currentFrame, lastError, owned, gen, failures, live, uboWritten,
                      gpuQueue, imageCount, frameOpen, last, presentQueue>>

\* the queue entry that vkQueueSubmit makes for slot i, rendering to image img
Submission(o, i, img) ==
    [ slot |-> i, refs |-> SubmissionRefs(o, i, img), image |-> img,
      wait |-> SubmitInfo(o, i).wait, signal |-> SubmitInfo(o, i).signal,
      fence |-> SubmitInfo(o, i).fence ]

\* Pipeline::endFrame: vkEndCommandBuffer succeeds iff endOk, vkQueueSubmit
\* succeeds iff submitOk, vkQueuePresentKHR returns r.  The caller calls it in
\* state READY only after a successful beginFrame (frameOpen).
EndFrame(endOk, submitOk, r) ==
    LET i == currentFrame
        submitted == endOk /\ submitOk
        done == submitted /\ ~PresentFails(r)
    IN /\ pc = "idle"
       /\ IF state # "READY"
          THEN /\ endOk /\ submitOk /\ r = "VK_SUCCESS"
               /\ lastError' = "Pipeline is not in ready state"
               /\ last' = Call("endFrame", FALSE, "none", "none", NoFail, TRUE)
               /\ Injected(TRUE)
               /\ UNCHANGED <<state, currentFrame, cbState, gpuQueue, frameOpen, presentQueue>>
          ELSE /\ frameOpen
               /\ ~endOk => (submitOk /\ r = "VK_SUCCESS")
               /\ ~submitOk => r = "VK_SUCCESS"
               /\ Injected(FrameFailure(endOk, submitOk, r))
               /\ frameOpen' = FALSE
               /\ cbState' = [cbState EXCEPT ![i] =
                                 IF ~endOk THEN "invalid"
                                 ELSE IF ~submitOk THEN "executable" ELSE "pending"]
               /\ gpuQueue' = IF submitted
                              THEN Append(gpuQueue, Submission(owned, i, currentImageIndex))
                              ELSE gpuQueue
               /\ presentQueue' = IF submitted
                                  THEN Append(presentQueue, PresentInfo(owned, i, currentImageIndex))
                                  ELSE presentQueue
               /\ state' = IF submitted THEN StateAfterPresent(state, r) ELSE state
               /\ currentFrame' = IF done THEN NextFrame(i) ELSE i
               /\ lastError' = IF ~endOk THEN "Failed to record command buffer"
                               ELSE IF ~submitOk THEN "Failed to submit draw command buffer"
                               ELSE IF PresentFails(r) THEN "Failed to present swap chain image"
                               ELSE lastError
               /\ last' = Call("endFrame", done, "none", IF submitted THEN r ELSE "none",
                               NoFail, ~done)
       /\ UNCHANGED <<currentImageIndex, owned, gen, live, fenceSignaled, uboWritten, imageCount, pc,
                      semSignal, acquiredImages>>

\* Pipeline::recreateIfNeeded up to waitIdle
RecreateIfNeeded ==
    /\ pc = "idle"
    /\ IF ~RecreateNeeded(state)
       THEN /\ last' = Call("recreateIfNeeded", TRUE, "none", "none", NoFail, FALSE)
            /\ pc' = pc
       ELSE /\ gen < MaxGen
            /\ pc' = "recreate_wait"
            /\ last' = NoCall
    /\ UNCHANGED <<state, currentFrame, currentImageIndex, lastError, owned, gen, failures, live,
                   fenceSignaled, cbState, uboWritten, gpuQueue, imageCount, frameOpen,
                   semSignal, presentQueue, acquiredImages>>

\* Pipeline::recreateIfNeeded after waitIdle returned: destroys the old
\* framebuffers, then cleanup() (whose own waitIdle returns at once, nothing
\* having been submitted since), then initialize() with injected failure f
RecreateResume(f) ==
    LET o1 == ClearFramebuffers(owned)
        lv1 == live \ OldFramebuffers(owned)
        o2 == CleanupOwned(o1)
        lv2 == lv1 \ CleanupDestroyed(o1)
    IN /\ pc = "recreate_wait"
       /\ WaitIdleDone
       /\ gen < MaxGen
       /\ pc' = "idle"
       /\ Build(o2, lv2, NoDevice, NoCommandBuffers, NoDevice, NoSignals, f)
       /\ frameOpen' = FALSE
       /\ last' = Destroying(Call("recreateIfNeeded", InitializeResult(f), "none", "none", f,
                                   ~InitializeResult(f)),
                              OldFramebufferDestroys(owned) \o CleanupSequence(o1))
       /\ UNCHANGED <<currentFrame, currentImageIndex, gpuQueue, imageCount, presentQueue, acquiredImages>>

\* the GPU executes the oldest queued submission once the semaphore it waits
\* on is signaled: the wait unsignals that semaphore, the end of execution
\* signals the submission's semaphore and fence, and the command buffer
\* leaves the pending state
GpuFinish ==
    /\ gpuQueue # <<>>
    /\ WaitSatisfied(Head(gpuQueue).wait)
    /\ gpuQueue' = Tail(gpuQueue)
    /\ semSignal' = [semSignal EXCEPT ![SemKey(Head(gpuQueue).wait)] = Unsignaled,
                                      ![SemKey(Head(gpuQueue).signal)] = Head(gpuQueue).image]
    /\ fenceSignaled' = [fenceSignaled EXCEPT ![Head(gpuQueue).fence[3] - 1] = TRUE]
    /\ cbState' = [cbState EXCEPT ![Head(gpuQueue).slot] = "executable"]
    /\ UNCHANGED <<state, currentFrame, currentImageIndex, lastError, owned, gen, failures, live,
                   uboWritten, imageCount, pc, frameOpen, last, presentQueue, acquiredImages>>

\* the presentation engine serves the oldest queued request once the semaphore
\* it waits on is signaled: the wait unsignals it and the image goes back to
\* the surface
GpuPresent ==
    /\ presentQueue # <<>>
    /\ WaitSatisfied(Head(presentQueue).wait)
    /\ presentQueue' = Tail(presentQueue)
    /\ semSignal' = [semSignal EXCEPT ![SemKey(Head(presentQueue).wait)] = Unsignaled]
    /\ acquiredImages' = acquiredImages \ {Head(presentQueue).image}
    /\ UNCHANGED <<state, currentFrame, currentImageIndex, lastError, owned, gen, failures, live,
                   fenceSignaled, cbState, uboWritten, gpuQueue, imageCount, pc, frameOpen, last>>

\* the presentation surface is rebuilt by its owner with n images, while the
\* pipeline is not rendering to it
SwapChainRecreate(n) ==
    /\ pc = "idle"
    /\ state # "READY"
    /\ n # imageCount
    /\ gpuQueue = <<>> /\ presentQueue = <<>>
    /\ imageCount' = n
    /\ acquiredImages' = {}
    /\ UNCHANGED <<state, currentFrame, currentImageIndex, lastError, owned, gen, failures, live,
                   fenceSignaled, cbState, uboWritten, gpuQueue, pc, frameOpen, last,
                   semSignal, presentQueue>>

\* the pipeline's steps leave the context and the logger alone
Others == UNCHANGED <<contextVars, loggerVars>>

Next ==
    \/ (\E f \in FailPointsOf[imageCount] : Initialize(f)) /\ Others
    \/ Cleanup /\ Others
    \/ CleanupResume /\ Others
    \/ BeginFrame /\ Others
    \/ (\E r \in VkAcquireResults, img \in 0 .. (imageCount - 1), beginOk \in BOOLEAN :
          BeginFrameResume(r, img, beginOk)) /\ Others
    \/ (\E r \in VkAcquireResults, img \in 0 .. (imageCount - 1) : BeginFrameFault(r, img)) /\ Others
    \/ (\E endOk \in BOOLEAN, submitOk \in BOOLEAN, r \in VkPresentResults :
          EndFrame(endOk, submitOk, r)) /\ Others
    \/ RecreateIfNeeded /\ Others
    \/ (\E f \in FailPointsOf[imageCount] : RecreateResume(f)) /\ Others
    \/ GpuFinish /\ Others
    \/ GpuPresent /\ Others
    \/ (\E n \in ImageCounts : SwapChainRecreate(n)) /\ Others

Spec == Init /\ [][Next]_vars

\* ---------------------------------------------------------------- VulkanContext
\* device extension names and device types that occur in the device lists
ExtensionNames == {"VK_KHR_swapchain", "VK_KHR_maintenance1"}
DeviceTypes == {"VK_PHYSICAL_DEVICE_TYPE_DISCRETE_GPU", "VK_PHYSICAL_DEVICE_TYPE_INTEGRATED_GPU"}
\* what vkGetPhysicalDeviceProperties and vkEnumerateDeviceExtensionProperties
\* report for a device
PhysicalDevices == [deviceType : DeviceTypes, availableExtensions : SUBSET ExtensionNames]
DeviceLists == UNION {[1 .. n -> PhysicalDevices] : n \in 0 .. MaxDevices}

\* pickPhysicalDevice: requiredExtensions after every available extension
\* name was erased from it
RequiredExtensionsLeft(required, d) == required \ d.availableExtensions

\* pickPhysicalDevice: the device the loop over devices assigns to
\* physicalDevice, examining devices i, i + 1, ...: the first one that has no
\* required extension missing and is a discrete GPU (NoDevicePicked if the
\* loop ends without assigning)
RECURSIVE LoopSelects(_, _, _)
LoopSelects(devs, required, i) ==
    IF i > Len(devs) THEN NoDevicePicked
    ELSE IF RequiredExtensionsLeft(required, devs[i]) # {} THEN LoopSelects(devs, required, i + 1)
    ELSE IF devs[i].deviceType = "VK_PHYSICAL_DEVICE_TYPE_DISCRETE_GPU" THEN i
    ELSE LoopSelects(devs, required, i + 1)

\* pickPhysicalDevice: after the loop, a physicalDevice that is still null
\* becomes devices[0]
AfterFallback(pd) == IF pd = NoDevicePicked THEN 1 ELSE pd

\* VulkanContext::pickPhysicalDevice, called once by VulkanContext::initialize
PickPhysicalDevice ==
    /\ ~pickReturned
    /\ pickReturned' = TRUE
    /\ IF Len(devices) = 0
       THEN /\ pickRet' = FALSE
            /\ physicalDevice' = physicalDevice
       ELSE LET sel == LoopSelects(devices, deviceExtensions, 1)
                pd == IF sel # NoDevicePicked THEN sel ELSE physicalDevice
            IN /\ physicalDevice' = AfterFallback(pd)
               /\ pickRet' = (AfterFallback(pd) # NoDevicePicked)
    /\ UNCHANGED <<devices, deviceExtensions, pipelineVars, loggerVars>>

\* device selection on every list of up to MaxDevices devices and every set
\* of required extensions
InitContext ==
    /\ PipelineConstructed
    /\ ContextConstructed
    /\ devices \in DeviceLists
    /\ deviceExtensions \in SUBSET ExtensionNames
    /\ LoggerConstructed

NextContext == PickPhysicalDevice

SpecContext == InitContext /\ [][NextContext]_vars

\* ---------------------------------------------------------------- Logger
\* thread t is executing an access to enabledLevels: the unlocked test
\* `enabledLevels[level]` of log and logf, or the assignment of setLogLevel
ReadsMap(t) == tpc[t] \in {"log_check", "logf_check"}
WritesMap(t) == tpc[t] = "set_write"

\* the value the test `!enabledLevels[level]` of thread t can see: the stored
\* one, or any value when the read races with an assignment by another thread
ReadSees(t, v) ==
    (\A u \in Threads \ {t} : ~WritesMap(u)) => v = enabledLevels[targ[t][1]]

\* a thread calls Logger::log(level, message)
CallLog(t, l) ==
    /\ tpc[t] = "idle"
    /\ logFile < MaxEntries
    /\ tpc' = [tpc EXCEPT ![t] = "log_check"]
    /\ targ' = [targ EXCEPT ![t] = <<l, TRUE>>]
    /\ UNCHANGED <<enabledLevels, logMutex, logFile>>

\* Logger::log: `if (!enabledLevels[level]) return;` read v, then the
\* lock_guard is constructed
LogChecked(t, v) ==
    /\ tpc[t] = "log_check"
    /\ ReadSees(t, v)
    /\ tpc' = [tpc EXCEPT ![t] = IF v THEN "log_lock" ELSE "idle"]
    /\ UNCHANGED <<enabledLevels, logMutex, logFile, targ>>

\* Logger::log: std::lock_guard acquires logMutex
LogLocked(t) ==
    /\ tpc[t] = "log_lock"
    /\ logMutex = Unlocked
    /\ logMutex' = t
    /\ tpc' = [tpc EXCEPT ![t] = "log_write"]
    /\ UNCHANGED <<enabledLevels, logFile, targ>>

\* Logger::log: the entry is written to the file and the lock released
LogWritten(t) ==
    /\ tpc[t] = "log_write"
    /\ logFile' = logFile + 1
    /\ logMutex' = Unlocked
    /\ tpc' = [tpc EXCEPT ![t] = "idle"]
    /\ UNCHANGED <<enabledLevels, targ>>

\* a thread calls Logger::logf(level, format, ...)
CallLogf(t, l) ==
    /\ tpc[t] = "idle"
    /\ logFile < MaxEntries
    /\ tpc' = [tpc EXCEPT ![t] = "logf_check"]
    /\ targ' = [targ EXCEPT ![t] = <<l, TRUE>>]
    /\ UNCHANGED <<enabledLevels, logMutex, logFile>>

\* Logger::logf: `if (!enabledLevels[level]) return;` read v, then the
\* message is formatted and log(level, ...) called
LogfChecked(t, v) ==
    /\ tpc[t] = "logf_check"
    /\ ReadSees(t, v)
    /\ tpc' = [tpc EXCEPT ![t] = IF v THEN "log_check" ELSE "idle"]
    /\ UNCHANGED <<enabledLevels, logMutex, logFile, targ>>

\* a thread calls Logger::setLogLevel(level, enabled)
CallSetLogLevel(t, l, e) ==
    /\ tpc[t] = "idle"
    /\ tpc' = [tpc EXCEPT ![t] = "set_lock"]
    /\ targ' = [targ EXCEPT ![t] = <<l, e>>]
    /\ UNCHANGED <<enabledLevels, logMutex, logFile>>

\* Logger::setLogLevel: std::lock_guard acquires logMutex, the assignment begins
SetLocked(t) ==
    /\ tpc[t] = "set_lock"
    /\ logMutex = Unlocked
    /\ logMutex' = t
    /\ tpc' = [tpc EXCEPT ![t] = "set_write"]
    /\ UNCHANGED <<enabledLevels, logFile, targ>>

\* Logger::setLogLevel: enabledLevels[level] = enabled is complete, the lock released
SetWritten(t) ==
    /\ tpc[t] = "set_write"
    /\ enabledLevels' = [enabledLevels EXCEPT ![targ[t][1]] = targ[t][2]]
    /\ logMutex' = Unlocked
    /\ tpc' = [tpc EXCEPT ![t] = "idle"]
    /\ UNCHANGED <<logFile, targ>>

\* the threads' steps leave the pipeline and the context alone
InitLogger ==
    /\ PipelineConstructed
    /\ ContextConstructed /\ devices = <<>> /\ deviceExtensions = {}
    /\ LoggerConstructed

NextLogger ==
    \/ (\E t \in Threads, l \in LogLevels : CallLog(t, l)) /\ UNCHANGED <<pipelineVars, contextVars>>
    \/ (\E t \in Threads, v \in BOOLEAN : LogChecked(t, v)) /\ UNCHANGED <<pipelineVars, contextVars>>
    \/ (\E t \in Threads : LogLocked(t)) /\ UNCHANGED <<pipelineVars, contextVars>>
    \/ (\E t \in Threads : LogWritten(t)) /\ UNCHANGED <<pipelineVars, contextVars>>
    \/ (\E t \in Threads, l \in LogLevels : CallLogf(t, l)) /\ UNCHANGED <<pipelineVars, contextVars>>
    \/ (\E t \in Threads, v \in BOOLEAN : LogfChecked(t, v)) /\ UNCHANGED <<pipelineVars, contextVars>>
    \/ (\E t \in Threads, l \in LogLevels, e \in BOOLEAN : CallSetLogLevel(t, l, e))
          /\ UNCHANGED <<pipelineVars, contextVars>>
    \/ (\E t \in Threads : SetLocked(t)) /\ UNCHANGED <<pipelineVars, contextVars>>
    \/ (\E t \in Threads : SetWritten(t)) /\ UNCHANGED <<pipelineVars, contextVars>>

SpecLogger == InitLogger /\ [][NextLogger]_vars
\* ================================================================ claims
\* steps of the model that are one call of an operation
BeginFrameResumeStep == pc = "beginFrame_wait" /\ pc' = "idle" /\ last'.op = "beginFrame"
\* endFrame called in state READY (it closes the frame that beginFrame opened)
EndFrameReadyStep ==
    pc = "idle" /\ pc' = "idle" /\ state = "READY" /\ frameOpen /\ ~frameOpen' /\ last'.op = "endFrame"
\* any call of endFrame
EndFrameStep == EndFrameReadyStep \/ (pc = "idle" /\ last'.op = "endFrame" /\ last' # last)
RecreateResumeStep == pc = "recreate_wait" /\ pc' = "idle"

\* C1: for every slot i, beginFrame resets or re-opens slot i's command
\* recorder only in a step that starts with slot i's fence signaled, and never
\* while a submission of that recorder is unfinished on the GPU.
C1_RecorderResetOnlyAfterFence ==
    [][ \A i \in Slots :
          (pc = "beginFrame_wait" /\ cbState'[i] # cbState[i] /\ cbState'[i] \in {"initial", "recording"})
          => /\ i = currentFrame
             /\ fenceSignaled[i]
             /\ cbState[i] # "pending"
             /\ \A k \in 1 .. Len(gpuQueue) : gpuQueue[k].slot # i ]_vars

\* C1 witness: after one initialize, slot 0 is being re-recorded (its earlier
\* submission finished) while slot 1's submission is still on the GPU.
C1_Witness ==
    /\ gen = 1 /\ state = "READY" /\ frameOpen
    /\ currentFrame = 0 /\ cbState[0] = "recording" /\ cbState[1] = "pending"
    /\ Len(gpuQueue) = 1 /\ gpuQueue[1].slot = 1

\* C2: at most N submissions are queued and unfinished in any state, and once
\* beginFrame has passed its fence wait and touched the slot, at most N-1
\* earlier frames are still unfinished.
C2_FramesInFlightBounded ==
    /\ Len(gpuQueue) <= MAX_FRAMES_IN_FLIGHT
    /\ (pc = "idle" /\ last.op = "beginFrame" /\ last.acquire \in {"VK_SUCCESS", "VK_SUBOPTIMAL_KHR"})
          => Len(gpuQueue) <= MAX_FRAMES_IN_FLIGHT - 1
    /\ \A i \in Slots : Cardinality({k \in 1 .. Len(gpuQueue) : gpuQueue[k].slot = i}) <= 1

\* C2 witness: the CPU records a new frame while N-1 earlier frames are unfinished.
C2_Witness ==
    /\ state = "READY" /\ frameOpen /\ last.op = "beginFrame" /\ last.ret
    /\ Len(gpuQueue) = MAX_FRAMES_IN_FLIGHT - 1

\* C3: no step destroys an owned GPU object that an unfinished submission
\* references (cleanup and recreateIfNeeded destroy only after device idle).
C3_NoDestroyWhileReferenced ==
    [][ \A k \in 1 .. Len(gpuQueue) : gpuQueue[k].refs \cap (live \ live') = {} ]_vars

\* C3 witness: cleanup has destroyed everything after a frame was submitted
\* (the slot index advanced once since the only initialize).
C3_Witness ==
    /\ last.op = "cleanup" /\ gen = 1 /\ failures = 0 /\ currentFrame = 1
    /\ live = {} /\ owned = EmptyOwned /\ gpuQueue = <<>>

\* C4 as claimed: every call of endFrame advances the slot index to (i+1) mod N
\* whatever its outcome (stated here for the calls made in state READY, the
\* only state endFrame is valid in).
C4_Original ==
    [][ EndFrameReadyStep => currentFrame' = (currentFrame + 1) % MAX_FRAMES_IN_FLIGHT ]_vars

\* C4 amended: a call of endFrame that returns true (normal or stale/suboptimal
\* presentation) advances the slot index from i to (i+1) mod N, a call that
\* returns false leaves it unchanged, and nothing else changes the slot index.
C4_SlotAdvance ==
    [][ /\ EndFrameStep =>
              currentFrame' = IF last'.ret THEN (currentFrame + 1) % MAX_FRAMES_IN_FLIGHT
                              ELSE currentFrame
        /\ currentFrame' # currentFrame =>
              (EndFrameReadyStep /\ currentFrame' = (currentFrame + 1) % MAX_FRAMES_IN_FLIGHT) ]_vars

\* C4 witness: endFrame returned true on a suboptimal presentation and the slot advanced.
C4_Witness ==
    /\ last.op = "endFrame" /\ last.ret /\ last.present = "VK_SUBOPTIMAL_KHR"
    /\ gen = 1 /\ currentFrame = 1 /\ state = "RECREATING"

\* the build step that creates handles of a kind
KindStep(kind) ==
    CASE kind = "descriptorSetLayout" -> 1
      [] kind = "renderPass" -> 2
      [] kind \in {"shaderModule", "pipelineLayout", "graphicsPipeline"} -> 3
      [] kind = "framebuffer" -> 4
      [] kind = "commandPool" -> 5
      [] kind = "commandBuffer" -> 6
      [] kind \in {"uniformBuffer", "uniformBufferMemory"} -> 7
      [] kind = "descriptorPool" -> 8
      [] kind = "descriptorSet" -> 9
      [] OTHER -> 10

\* the last completed call was initialize() in state UNINITIALIZED
InitializeRan == last.op = "initialize" /\ (last.ret \/ last.fail # <<0, 0>>)

\* C5: initialize in state UNINITIALIZED returns true and ends READY exactly
\* when no build step failed; when step s fails it returns false, the state
\* stays UNINITIALIZED and no object of a step after s was created.
C5_InitializeFailFast ==
    InitializeRan =>
        /\ last.ret <=> last.fail[1] = 0
        /\ last.ret <=> state = "READY"
        /\ ~last.ret => state = "UNINITIALIZED"
        /\ ~last.ret => \A h \in live : h[2] = gen => KindStep(h[1]) <= last.fail[1]
        /\ last.ret => Len(owned.inFlightFences) = MAX_FRAMES_IN_FLIGHT

\* C5 witness: initialize failed at descriptor-pool creation (step 8).
C5_Witness ==
    /\ InitializeRan /\ ~last.ret /\ last.fail = <<8, 1>>
    /\ state = "UNINITIALIZED" /\ Len(owned.uniformBuffers) = MAX_FRAMES_IN_FLIGHT

\* C6: when acquisition reports out-of-date, beginFrame sets RECREATING,
\* returns false, and leaves the slot's fence (signaled), every recorder, the
\* uniform blocks and the slot index as they were.
C6_OutOfDateAcquire ==
    [][ (BeginFrameResumeStep /\ last'.acquire = "VK_ERROR_OUT_OF_DATE_KHR") =>
            /\ state' = "RECREATING"
            /\ ~last'.ret
            /\ fenceSignaled[currentFrame] /\ fenceSignaled' = fenceSignaled
            /\ cbState' = cbState
            /\ uboWritten' = uboWritten
            /\ currentFrame' = currentFrame
            /\ ~frameOpen' ]_vars

\* C6 witness: beginFrame returned false on an out-of-date acquisition; the
\* slot's fence is signaled and its block was never written.
C6_Witness ==
    /\ last.op = "beginFrame" /\ last.acquire = "VK_ERROR_OUT_OF_DATE_KHR" /\ ~last.ret
    /\ state = "RECREATING" /\ fenceSignaled[currentFrame] /\ ~uboWritten[currentFrame]

\* C7: when presentation reports out-of-date or suboptimal, endFrame sets
\* RECREATING, has queued the slot's submission with the slot's fence, advances
\* the slot index and returns true.
C7_StalePresent ==
    [][ (EndFrameReadyStep /\ last'.present \in {"VK_ERROR_OUT_OF_DATE_KHR", "VK_SUBOPTIMAL_KHR"}) =>
            /\ state' = "RECREATING"
            /\ last'.ret
            /\ currentFrame' = (currentFrame + 1) % MAX_FRAMES_IN_FLIGHT
            /\ Len(gpuQueue') = Len(gpuQueue) + 1
            /\ gpuQueue'[Len(gpuQueue')].slot = currentFrame
            /\ At(owned.inFlightFences, currentFrame) \in gpuQueue'[Len(gpuQueue')].refs
            /\ At(owned.commandBuffers, currentFrame) \in gpuQueue'[Len(gpuQueue')].refs
            /\ cbState'[currentFrame] = "pending" ]_vars

\* C7 witness: endFrame returned true on an out-of-date presentation, its
\* submission is still queued.
C7_Witness ==
    /\ last.op = "endFrame" /\ last.ret /\ last.present = "VK_ERROR_OUT_OF_DATE_KHR"
    /\ state = "RECREATING" /\ gpuQueue # <<>>

\* C8: the state becomes RECREATING only from READY and only in a beginFrame
\* whose acquisition was out-of-date or an endFrame whose presentation was
\* out-of-date or suboptimal; and such a call never sets the last error nor
\* leaves the state READY.
C8_RecreatingOnlyByStaleSurface ==
    [][ /\ (state' = "RECREATING" /\ state # "RECREATING") =>
              /\ state = "READY"
              /\ \/ BeginFrameResumeStep /\ last'.acquire = "VK_ERROR_OUT_OF_DATE_KHR"
                 \/ EndFrameReadyStep /\ last'.present \in {"VK_ERROR_OUT_OF_DATE_KHR", "VK_SUBOPTIMAL_KHR"}
        /\ (\/ BeginFrameResumeStep /\ last'.acquire = "VK_ERROR_OUT_OF_DATE_KHR"
            \/ EndFrameReadyStep /\ last'.present \in {"VK_ERROR_OUT_OF_DATE_KHR", "VK_SUBOPTIMAL_KHR"})
              => (state' = "RECREATING" /\ ~last'.err /\ lastError' = lastError) ]_vars

\* C8 witness: RECREATING was entered by a stale acquisition with no error recorded at all.
C8_Witness ==
    /\ state = "RECREATING" /\ last.op = "beginFrame"
    /\ last.acquire = "VK_ERROR_OUT_OF_DATE_KHR" /\ lastError = "" /\ currentFrame = 1

\* C9 as claimed: after a beginFrame or endFrame that failed on a GPU call
\* with the state still READY, no partial mutation is left: every unsignaled
\* fence has a queued submission that will signal it, the slot's recorder is
\* neither open nor invalid, and the slot has no queued submission.
C9_NoPartialMutationWhenReady ==
    (pc = "idle" /\ last.op \in {"beginFrame", "endFrame"} /\ ~last.ret /\ state = "READY") =>
        /\ last.err
        /\ \A i \in Slots : ~fenceSignaled[i] => \E k \in 1 .. Len(gpuQueue) : gpuQueue[k].slot = i
        /\ cbState[currentFrame] \notin {"recording", "invalid", "pending"}
        /\ \A k \in 1 .. Len(gpuQueue) : gpuQueue[k].slot # currentFrame

\* C10: a recreateIfNeeded that runs in state RECREATING and whose rebuild
\* steps all succeed returns true, ends READY, and owns exactly one live, newly
\* created framebuffer per presentable image of the surface at that moment.
C10_RecreateRebuildsTargets ==
    [][ (RecreateResumeStep /\ last'.fail = <<0, 0>>) =>
            /\ state = "RECREATING"
            /\ last'.op = "recreateIfNeeded" /\ last'.ret
            /\ state' = "READY"
            /\ Len(owned'.framebuffers) = imageCount
            /\ \A k \in 1 .. imageCount :
                  /\ owned'.framebuffers[k] \in live'
                  /\ owned'.framebuffers[k] \notin live
            /\ Range(owned.framebuffers) \cap live' = {} ]_vars

\* C10 witness: the pipeline was initialized once and recreated once; the
\* image index left from the last acquisition shows the surface then had two
\* images, and the rebuilt target set has the single framebuffer of the new surface.
C10_Witness ==
    /\ last.op = "recreateIfNeeded" /\ last.ret /\ state = "READY"
    /\ gen = 2 /\ failures = 0
    /\ currentImageIndex = 1 /\ imageCount = 1 /\ Len(owned.framebuffers) = 1

\* a call of operation op that returns without blocking
ReturnsAtOnce(op) == pc = "idle" /\ pc' = "idle" /\ last'.op = op /\ last' # last

C12_RecreateNoopUnlessRecreating ==
    [][ /\ ReturnsAtOnce("recreateIfNeeded") =>
              /\ state # "RECREATING"
              /\ last'.ret /\ ~last'.err
              /\ UNCHANGED <<state, currentFrame, currentImageIndex, lastError, owned, gen, live,
                             fenceSignaled, cbState, uboWritten, gpuQueue, frameOpen>>
        /\ (pc = "idle" /\ pc' = "recreate_wait") => state = "RECREATING"
        /\ RecreateResumeStep => state = "RECREATING" ]_vars

\* C12 witness: recreateIfNeeded returned true in state READY in the middle of
\* a frame, with an earlier frame still on the GPU.
C12_Witness ==
    /\ last.op = "recreateIfNeeded" /\ last.ret /\ state = "READY"
    /\ frameOpen /\ gpuQueue # <<>> /\ cbState[currentFrame] = "recording"

C14_InitializeRejectedUnlessUninitialized ==
    [][ (state # "UNINITIALIZED" /\ ReturnsAtOnce("initialize")) =>
              /\ ~last'.ret /\ last'.err
              /\ lastError' = "Pipeline is already initialized"
              /\ UNCHANGED <<state, currentFrame, currentImageIndex, owned, gen, live,
                             fenceSignaled, cbState, uboWritten, gpuQueue, frameOpen>> ]_vars

\* C14 witness: initialize was rejected in state RECREATING, the objects of the
\* only build still owned and alive.
C14_Witness ==
    /\ last.op = "initialize" /\ ~last.ret /\ last.fail = <<0, 0>> /\ state = "RECREATING"
    /\ gen = 1 /\ owned.renderPass \in live

\* the step in which cleanup() runs to its end
CleanupResumeStep == pc = "cleanup_wait" /\ pc' = "idle"
\* every handle and mapping held in members o
OwnedHandles(o) ==
    {o.descriptorSetLayout, o.renderPass, o.pipelineLayout, o.graphicsPipeline, o.descriptorPool}
    \cup Range(o.framebuffers) \cup Range(o.commandPools) \cup Range(o.commandBuffers)
    \cup Range(o.uniformBuffers) \cup Range(o.uniformBuffersMemory) \cup Range(o.uniformBuffersMapped)
    \cup Range(o.descriptorSets) \cup Range(o.imageAvailableSemaphores)
    \cup Range(o.renderFinishedSemaphores) \cup Range(o.inFlightFences)
\* the slot-indexed collections of members o
SlotCollections(o) ==
    { o.commandPools, o.commandBuffers, o.inFlightFences, o.imageAvailableSemaphores,
      o.renderFinishedSemaphores, o.uniformBuffers, o.uniformBuffersMemory,
      o.uniformBuffersMapped, o.descriptorSets }

\* C15: cleanup, from whatever state it is called in, ends in state
\* UNINITIALIZED with every collection empty and every handle member null; and
\* a cleanup that finds the pipeline as a cleanup leaves it (or as the
\* constructor does) destroys nothing and changes neither members nor state.
C15_CleanupFromAnyStateIdempotent ==
    [][ CleanupResumeStep =>
            /\ last'.op = "cleanup" /\ last'.ret
            /\ state' = "UNINITIALIZED"
            /\ \A vec \in SlotCollections(owned') \cup {owned'.framebuffers} : vec = <<>>
            /\ OwnedHandles(owned') \subseteq {VK_NULL_HANDLE}
            /\ OwnedHandles(owned) \cap live' = {}
            /\ (state = "UNINITIALIZED" /\ OwnedHandles(owned) \subseteq {VK_NULL_HANDLE}
                  /\ \A vec \in SlotCollections(owned) \cup {owned.framebuffers} : vec = <<>>)
                  => (live' = live /\ owned' = owned /\ state' = state) ]_vars

\* C15 witness: cleanup ran after an initialize that failed at the descriptor
\* pool and released all that the failed build had created.
C15_Witness ==
    /\ last.op = "cleanup" /\ state = "UNINITIALIZED" /\ gen = 1 /\ failures = 1
    /\ lastError = "Failed to create descriptor pool" /\ live = {} /\ owned = EmptyOwned

\* C16 as claimed: when initialize has returned after descriptor-pool creation
\* failed, it returned false, the state is UNINITIALIZED, and nothing that this
\* call created is still alive or still held in a member.
C16_DescriptorPoolFailureReleasesAll ==
    (last.op = "initialize" /\ last.fail = <<8, 1>>) =>
        /\ ~last.ret
        /\ state = "UNINITIALIZED"
        /\ \A h \in live : h[2] # gen
        /\ OwnedHandles(owned) \subseteq {VK_NULL_HANDLE}

\* C17 as claimed: when cleanup has returned, no GPU object created by the
\* pipeline is alive.
C17_NoLeakAfterCleanup ==
    last.op = "cleanup" => live = {}

\* C18: an initialize that follows a cleanup of a pipeline none of whose
\* calls failed so far, and whose own steps all succeed, returns true and ends
\* READY; every handle it leaves in a member is non-null, alive, was not alive
\* before the call and was never returned by an earlier creation call.
C18_RoundTripFreshHandles ==
    [][ (last.op = "cleanup" /\ gen >= 1 /\ failures = 0
           /\ ReturnsAtOnce("initialize") /\ last'.fail = <<0, 0>>) =>
            /\ last'.ret
            /\ state' = "READY"
            /\ \A h \in OwnedHandles(owned') :
                  /\ h # VK_NULL_HANDLE
                  /\ h \notin live
                  /\ h[2] > gen
                  /\ h[1] # "mapped" => h \in live'
            /\ \A h \in live' : h[2] > gen ]_vars

\* C18 witness: the second build of the pipeline was made by initialize (a
\* recreation makes the state READY without a call of initialize returning true).
C18_Witness ==
    /\ last.op = "initialize" /\ last.ret /\ state = "READY" /\ gen = 2 /\ failures = 0
    /\ owned.inFlightFences = <<H("fence", 2, 1), H("fence", 2, 2)>>

\* C19 as claimed: in state READY each slot-indexed collection (command
\* pools, recorders, fences, both semaphore collections, uniform buffers, their
\* memory, their mappings, descriptor sets) has exactly N entries, none null,
\* and every device object among them is alive.
C19_SlotCollectionsComplete ==
    state = "READY" =>
        \A vec \in SlotCollections(owned) :
            /\ Len(vec) = MAX_FRAMES_IN_FLIGHT
            /\ \A k \in 1 .. Len(vec) :
                  /\ vec[k] # VK_NULL_HANDLE
                  /\ vec[k][1] # "mapped" => vec[k] \in live

\* C20: in state READY there is exactly one framebuffer per presentable image,
\* each alive; in every state the framebuffers alive on the device are exactly
\* the non-null elements of the framebuffer collection, all made by one build
\* (a teardown leaves none behind and none half destroyed); and the image index
\* of an open frame selects a live framebuffer.
C20_TargetSetAllOrNothing ==
    /\ state = "READY" =>
          /\ Len(owned.framebuffers) = imageCount
          /\ \A k \in 1 .. Len(owned.framebuffers) : owned.framebuffers[k] \in live
    /\ {h \in live : h[1] = "framebuffer"} = Range(owned.framebuffers) \ {VK_NULL_HANDLE}
    /\ \A h1, h2 \in Range(owned.framebuffers) \ {VK_NULL_HANDLE} : h1[2] = h2[2]
    /\ last.op \in {"cleanup", "recreateIfNeeded"} =>
          \A h \in live : h[1] = "framebuffer" => h[2] = gen
    /\ frameOpen =>
          /\ currentImageIndex < Len(owned.framebuffers)
          /\ At(owned.framebuffers, currentImageIndex) \in live

\* C20 witness: a frame is open on the second image after the target set was
\* torn down and rebuilt by a recreation.
C20_Witness ==
    /\ state = "READY" /\ frameOpen /\ gen = 2 /\ currentImageIndex = 1
    /\ At(owned.framebuffers, currentImageIndex) = H("framebuffer", 2, 2)

\* ---------------------------------------------------------------- C21
\* C21: the submission that endFrame makes for slot i waits on slot i's
\* image-acquired semaphore, whose pending signal is the one queued by the
\* acquisition of the very image the submission renders to, and signals slot
\* i's render-finished semaphore and fence; the presentation request queued
\* with it waits on that render-finished semaphore and names the same image;
\* and whenever the oldest presentation request can start, the submission that
\* renders its image has finished.  So the GPU never executes a recording
\* before its image is available and never presents an image before its
\* rendering is finished.
C21_SemaphoreOrdering ==
    /\ \A k \in 1 .. Len(gpuQueue) :
          LET e == gpuQueue[k]
          IN /\ e.wait = At(owned.imageAvailableSemaphores, e.slot)
             /\ e.signal = At(owned.renderFinishedSemaphores, e.slot)
             /\ e.fence = At(owned.inFlightFences, e.slot)
             /\ semSignal[SemKey(e.wait)] = e.image
    /\ Len(presentQueue) >= Len(gpuQueue)
    /\ \A k \in 1 .. Len(gpuQueue) :
          LET p == presentQueue[k + Len(presentQueue) - Len(gpuQueue)]
          IN p.wait = gpuQueue[k].signal /\ p.image = gpuQueue[k].image
    /\ (presentQueue # <<>> /\ semSignal[SemKey(Head(presentQueue).wait)] # Unsignaled)
          => Len(presentQueue) > Len(gpuQueue)

\* C21 witness: two frames were submitted; the first has finished and
\* signaled its render-finished semaphore, so its presentation can start,
\* while the second still waits in the queue behind its acquired image.
C21_Witness ==
    /\ Len(gpuQueue) = 1 /\ Len(presentQueue) = 2
    /\ semSignal[SemKey(presentQueue[1].wait)] = presentQueue[1].image
    /\ semSignal[SemKey(gpuQueue[1].wait)] = gpuQueue[1].image
    /\ presentQueue[1].image # presentQueue[2].image

\* ---------------------------------------------------------------- C22
\* the kinds of handle that the pipeline keeps one per frame slot
PerSlotKinds ==
    { "commandPool", "commandBuffer", "fence", "imageAvailableSemaphore",
      "renderFinishedSemaphore", "uniformBuffer", "uniformBufferMemory", "mapped",
      "descriptorSet" }
\* a step leaves the device state of every slot other than i as it was
OtherSlotsUntouched(i) ==
    \A j \in Slots \ {i} :
        /\ fenceSignaled'[j] = fenceSignaled[j]
        /\ cbState'[j] = cbState[j]
        /\ uboWritten'[j] = uboWritten[j]
        /\ \A k \in SemaphoreKinds : semSignal'[<<k, j>>] = semSignal[<<k, j>>]
\* a step in which beginFrame (past its fence wait) or endFrame runs
FrameStep == (pc = "beginFrame_wait" /\ pc' # pc) \/ EndFrameStep

\* C22: a beginFrame or endFrame that runs with active slot i reads, waits
\* on, resets, writes and submits only slot i's fence, semaphores, recorder,
\* uniform block and descriptor set: the device state of every other slot is
\* unchanged by the call, no member handle changes, and the submission and
\* the presentation request that endFrame queues name per-slot objects of
\* slot i only.
C22_FrameTouchesOnlyActiveSlot ==
    [][ FrameStep =>
          /\ OtherSlotsUntouched(currentFrame)
          /\ owned' = owned /\ live' = live
          /\ Len(gpuQueue') > Len(gpuQueue) =>
                LET e == gpuQueue'[Len(gpuQueue')]
                    p == presentQueue'[Len(presentQueue')]
                IN /\ e.slot = currentFrame
                   /\ \A h \in e.refs \cup {e.wait, e.signal, e.fence, p.wait} :
                         h[1] \in PerSlotKinds => h[3] = currentFrame + 1 ]_vars

\* C22 witness: beginFrame has just opened a frame on slot 1 while the
\* submission of slot 0 is still queued, its fence unsignaled and its
\* image-acquired semaphore still signaled.
C22_Witness ==
    /\ last.op = "beginFrame" /\ last.ret /\ currentFrame = 1 /\ cbState[1] = "recording"
    /\ Len(gpuQueue) = 1 /\ gpuQueue[1].slot = 0 /\ ~fenceSignaled[0]
    /\ semSignal[<<"imageAvailableSemaphore", 0>>] # Unsignaled
    /\ semSignal[<<"imageAvailableSemaphore", 1>>] # Unsignaled

\* ---------------------------------------------------------------- C23
\* in the destroy log seq, every handle of a kind in A comes before every
\* handle of a kind in B
Before(seq, A, B) ==
    \A a, b \in 1 .. Len(seq) : (seq[a][1] \in A /\ seq[b][1] \in B) => a < b
SyncKinds == {"fence", "imageAvailableSemaphore", "renderFinishedSemaphore"}

\* C23 as claimed: cleanup destroys the descriptor pool before the descriptor
\* set layout, every framebuffer before the render pass, and the fences and
\* semaphores after every other per-frame resource (uniform blocks, command
\* pools and recorders, descriptor sets).
C23_Original ==
    last.op = "cleanup" =>
        /\ Before(last.destroyed, {"descriptorPool"}, {"descriptorSetLayout"})
        /\ Before(last.destroyed, {"framebuffer"}, {"renderPass"})
        /\ Before(last.destroyed,
                  {"uniformBuffer", "uniformBufferMemory", "commandPool", "commandBuffer",
                   "descriptorSet"},
                  SyncKinds)

\* C23, amended: cleanup destroys the descriptor pool (and with it the
\* descriptor sets) before the descriptor set layout, every framebuffer before
\* the graphics pipeline, that before the pipeline layout and that before the
\* render pass; among the per-frame resources the uniform blocks and the
\* descriptor sets go first, then the semaphores and fences, and the command
\* pools with their recorders last.
C23_CleanupOrder ==
    last.op = "cleanup" =>
        /\ Before(last.destroyed, {"descriptorPool", "descriptorSet"}, {"descriptorSetLayout"})
        /\ Before(last.destroyed, {"framebuffer"}, {"graphicsPipeline"})
        /\ Before(last.destroyed, {"graphicsPipeline"}, {"pipelineLayout"})
        /\ Before(last.destroyed, {"pipelineLayout"}, {"renderPass"})
        /\ Before(last.destroyed, {"uniformBuffer", "uniformBufferMemory", "descriptorSet"}, SyncKinds)
        /\ Before(last.destroyed, SyncKinds, {"commandPool", "commandBuffer"})

\* C23 witness: cleanup has destroyed a complete build: its log holds the
\* layout, the render pass, the fences and the command pools of both slots.
C23_Witness ==
    /\ last.op = "cleanup" /\ live = {}
    /\ \A k \in {"descriptorPool", "descriptorSetLayout", "framebuffer", "renderPass",
                 "graphicsPipeline", "pipelineLayout", "uniformBuffer", "descriptorSet",
                 "commandPool", "commandBuffer"} \cup SyncKinds :
          \E a \in 1 .. Len(last.destroyed) : last.destroyed[a][1] = k
    /\ Len(last.destroyed) >= 8 * MAX_FRAMES_IN_FLIGHT + 6

\* ---------------------------------------------------------------- C24
\* Pipeline::getCurrentCommandBuffer: commandBuffers[currentFrame], unchecked.
\* An index past the end of the vector reads whatever lies there.
OutOfRangeRead == <<"out-of-range", 0, 0>>
getCurrentCommandBuffer ==
    IF currentFrame < Len(owned.commandBuffers)
    THEN At(owned.commandBuffers, currentFrame)
    ELSE OutOfRangeRead

\* C24 as claimed: between a successful beginFrame and its endFrame the
\* accessor returns the recorder of the slot that beginFrame put into the
\* recording state and that endFrame will submit; at any other time at which
\* it can be called it returns neither a recorder in the recording state nor
\* the result of indexing an empty collection.
C24_AccessorOnlyValidRecorder ==
    pc = "idle" =>
        /\ frameOpen =>
              /\ getCurrentCommandBuffer = At(owned.commandBuffers, currentFrame)
              /\ getCurrentCommandBuffer = SubmitInfo(owned, currentFrame).cmd
              /\ getCurrentCommandBuffer \in live
              /\ cbState[currentFrame] = "recording"
        /\ ~frameOpen =>
              /\ getCurrentCommandBuffer # OutOfRangeRead
              /\ cbState[currentFrame] # "recording"

\* ---------------------------------------------------------------- C25
\* C25 as claimed: createGraphicsPipeline destroys, on every path out of it,
\* every shader module that it created: once the initialize or the
\* recreateIfNeeded that ran it has returned, no shader module is alive.
C25_ShaderModulesReleased ==
    \A h \in live : h[1] # "shaderModule"

\* ---------------------------------------------------------------- C26
\* C26 as claimed: a call of initialize, beginFrame, endFrame or
\* recreateIfNeeded that returned false called setError, and a call in which
\* a GPU call returned an error (vkMapMemory included) returned false with
\* the error recorded.
C26_NoFailureSwallowed ==
    /\ (last.op \in {"initialize", "beginFrame", "endFrame", "recreateIfNeeded"} /\ ~last.ret)
          => last.err
    /\ last.fail # NoFail => (~last.ret /\ last.err)

\* ---------------------------------------------------------------- C27
\* C27: cleanup and recreateIfNeeded pass no handle to a destroy call twice
\* and none that is not alive, and what they destroyed is not alive after the
\* call; recreateIfNeeded destroys each framebuffer of the old target set
\* exactly once (its own loop does it, and the cleanup it then runs finds the
\* collection empty); and at no time does a member hold a handle that is not
\* alive.
C27_NoDoubleDestroy ==
    [][ /\ (CleanupResumeStep \/ RecreateResumeStep) =>
              LET d == last'.destroyed
              IN /\ \A a, b \in 1 .. Len(d) : d[a] = d[b] => a = b
                 /\ Range(d) \subseteq live
                 /\ Range(d) \cap live' = {}
                 /\ RecreateResumeStep =>
                       \A h \in Range(owned.framebuffers) \ {VK_NULL_HANDLE} :
                           Cardinality({a \in 1 .. Len(d) : d[a] = h}) = 1
        /\ \A h \in OwnedHandles(owned') :
              (h # VK_NULL_HANDLE /\ h[1] # "mapped") => h \in live' ]_vars

\* C27 witness: a recreation has destroyed the two framebuffers of the old
\* target set and every other object of the old build, and rebuilt all.
C27_Witness ==
    /\ last.op = "recreateIfNeeded" /\ last.ret /\ state = "READY"
    /\ Cardinality({a \in 1 .. Len(last.destroyed) : last.destroyed[a][1] = "framebuffer"}) = 2
    /\ \E a \in 1 .. Len(last.destroyed) : last.destroyed[a][1] = "renderPass"
    /\ \A h \in Range(last.destroyed) : h \notin live

\* ---------------------------------------------------------------- C28
\* a slot-indexed collection with all N handles / with at least one handle
FullVec(vec) == Len(vec) = MAX_FRAMES_IN_FLIGHT /\ \A k \in 1 .. Len(vec) : vec[k] # VK_NULL_HANDLE
SomeIn(vec) == \E k \in 1 .. Len(vec) : vec[k] # VK_NULL_HANDLE
\* per build step, in the order the claim gives: has the step left all of
\* its objects in the members / at least one of them
StepDone(o) ==
    << o.descriptorSetLayout # VK_NULL_HANDLE,
       o.renderPass # VK_NULL_HANDLE,
       o.pipelineLayout # VK_NULL_HANDLE /\ o.graphicsPipeline # VK_NULL_HANDLE,
       o.framebuffers # <<>> /\ \A k \in 1 .. Len(o.framebuffers) : o.framebuffers[k] # VK_NULL_HANDLE,
       FullVec(o.commandPools),
       FullVec(o.commandBuffers),
       FullVec(o.uniformBuffers) /\ FullVec(o.uniformBuffersMemory),
       o.descriptorPool # VK_NULL_HANDLE,
       FullVec(o.descriptorSets),
       FullVec(o.imageAvailableSemaphores) /\ FullVec(o.renderFinishedSemaphores)
           /\ FullVec(o.inFlightFences) >>
StepStarted(o) ==
    << o.descriptorSetLayout # VK_NULL_HANDLE,
       o.renderPass # VK_NULL_HANDLE,
       o.pipelineLayout # VK_NULL_HANDLE \/ o.graphicsPipeline # VK_NULL_HANDLE,
       SomeIn(o.framebuffers),
       SomeIn(o.commandPools),
       SomeIn(o.commandBuffers),
       SomeIn(o.uniformBuffers) \/ SomeIn(o.uniformBuffersMemory),
       o.descriptorPool # VK_NULL_HANDLE,
       SomeIn(o.descriptorSets),
       SomeIn(o.imageAvailableSemaphores) \/ SomeIn(o.renderFinishedSemaphores)
           \/ SomeIn(o.inFlightFences) >>

\* the build order as seen in members o with live handles lv in state st
BuildOrderKept(o, lv, st) ==
    /\ LET done == StepDone(o)
           started == StepStarted(o)
       IN \A b \in 2 .. 10 : started[b] => \A a \in 1 .. b - 1 : done[a]
    /\ \A h \in OwnedHandles(o) : (h # VK_NULL_HANDLE /\ h[1] # "mapped") => h \in lv
    /\ st = "READY" => \A a \in 1 .. 10 : StepDone(o)[a]

\* C28: after every initialize (called directly or by recreateIfNeeded),
\* successful or failed, the members hold an object of a build step only if
\* every step that comes before it in the order descriptor layout, render
\* pass, pipeline, framebuffers, command pools, command buffers, uniform
\* blocks, descriptor pool, descriptor sets, sync primitives has left all of
\* its objects, all of them alive: a step ran only after all earlier steps
\* succeeded, so what it needs (the render pass for framebuffers and
\* pipeline, the descriptor layout for the pipeline layout, the command pools
\* for the command buffers, the uniform blocks and the descriptor pool for
\* the descriptor sets) exists.  If the state is READY afterwards, every step
\* has left all of its objects.
C28_BuildOrder ==
    [][ (last' # last /\ last'.op \in {"initialize", "recreateIfNeeded"}) =>
            BuildOrderKept(owned', live', state') ]_vars

\* C28 witness: initialize failed while creating the synchronization objects,
\* some of which exist; every earlier step is complete.
C28_Witness ==
    /\ last.op = "initialize" /\ ~last.ret /\ gen = 1
    /\ StepStarted(owned)[10] /\ ~StepDone(owned)[10]
    /\ StepDone(owned)[9] /\ StepDone(owned)[4]

\* ---------------------------------------------------------------- C29
\* C29 as claimed: whenever a beginFrame called in state READY waits on the
\* active slot's fence, the fence is signaled or a queued submission will
\* signal it, so that the wait ends once the GPU has finished its queue.
C29_FenceWaitTerminates ==
    pc = "beginFrame_wait" =>
        \/ fenceSignaled[currentFrame]
        \/ \E k \in 1 .. Len(gpuQueue) :
              gpuQueue[k].fence = At(owned.inFlightFences, currentFrame)

\* ---------------------------------------------------------------- C30
\* a queued, unfinished submission reads the uniform block of slot j
GpuReadsUniform(j) ==
    \E k \in 1 .. Len(gpuQueue) : At(owned.uniformBuffers, j) \in gpuQueue[k].refs
\* the step in which beginFrame, past its fence wait, ran updateUniformBuffer
UniformWriteStep ==
    pc = "beginFrame_wait" /\ pc' = "idle" /\ last'.op = "beginFrame" /\ last'.ret

\* C30: the CPU writes the uniform block of a slot only in the part of
\* beginFrame that follows the wait on that slot's fence, only the block of
\* the active slot, and at that moment no unfinished GPU submission reads
\* that block.
C30_NoUniformRace ==
    [][ /\ UniformWriteStep =>
              /\ fenceSignaled[currentFrame]
              /\ ~GpuReadsUniform(currentFrame)
              /\ uboWritten'[currentFrame]
        /\ \A j \in Slots :
              (uboWritten'[j] /\ ~uboWritten[j]) => (UniformWriteStep /\ j = currentFrame)
      ]_vars

\* C30 witness: beginFrame wrote the block of slot 0 for the second time in
\* the life of the first generation, while the submission of slot 1 (which
\* reads the other block) is still unfinished.
C30_Witness ==
    /\ pc = "idle" /\ last.op = "beginFrame" /\ last.ret
    /\ gen = 1 /\ currentFrame = 0 /\ uboWritten[0]
    /\ \E k \in 1 .. Len(gpuQueue) : gpuQueue[k].slot = 1
    /\ ~GpuReadsUniform(0)

\* ---------------------------------------------------------------- C31
\* C31 as claimed: a semaphore with a pending unconsumed signal is neither
\* passed to an acquisition nor signaled again: when beginFrame is about to
\* call vkAcquireNextImageKHR (its fence wait can return) the active slot's
\* image-acquired semaphore is unsignaled and no queued submission still
\* waits on it, and when the oldest queued submission can execute, the
\* semaphore it will signal is unsignaled.
C31_SemaphorePairing ==
    /\ (pc = "beginFrame_wait" /\ fenceSignaled[currentFrame]) =>
          /\ semSignal[<<"imageAvailableSemaphore", currentFrame>>] = Unsignaled
          /\ \A k \in 1 .. Len(gpuQueue) :
                gpuQueue[k].wait # At(owned.imageAvailableSemaphores, currentFrame)
    /\ (gpuQueue # <<>> /\ semSignal[SemKey(Head(gpuQueue).wait)] # Unsignaled) =>
          semSignal[SemKey(Head(gpuQueue).signal)] = Unsignaled

\* ---------------------------------------------------------------- C32
\* C32: a beginFrame whose acquisition reported suboptimal goes on as after
\* VK_SUCCESS: the state stays READY, the acquired image index is stored, the
\* slot's fence is reset, the slot's recorder is reset and re-opened, no
\* acquisition error is recorded, and the call returns true (with the frame
\* prologue recorded and the uniform block written) unless the start of the
\* recording itself failed.  A suboptimal surface changes the state to
\* RECREATING only in an endFrame whose presentation reported it.
C32_SuboptimalAcquireIsSuccess ==
    [][ /\ (BeginFrameResumeStep /\ last'.acquire = "VK_SUBOPTIMAL_KHR") =>
              /\ state = "READY" /\ state' = "READY"
              /\ currentImageIndex' \in acquiredImages'
              /\ fenceSignaled[currentFrame] /\ ~fenceSignaled'[currentFrame]
              /\ ~last'.err => lastError' = lastError
              /\ last'.ret = ~last'.err
              /\ last'.err => (lastError' = "Failed to begin recording command buffer"
                                 /\ cbState'[currentFrame] = "initial")
              /\ last'.ret => (cbState'[currentFrame] = "recording" /\ frameOpen'
                                 /\ uboWritten'[currentFrame])
        /\ (state = "READY" /\ state' = "RECREATING"
              /\ "VK_SUBOPTIMAL_KHR" \in {last'.acquire, last'.present}) =>
              (pc = "idle" /\ last'.op = "endFrame" /\ last'.present = "VK_SUBOPTIMAL_KHR")
      ]_vars

\* C32 witness: beginFrame returned true on a suboptimal acquisition, in state
\* READY, with the slot's fence reset and the recording open.
C32_Witness ==
    /\ last.op = "beginFrame" /\ last.acquire = "VK_SUBOPTIMAL_KHR" /\ last.ret
    /\ state = "READY" /\ ~fenceSignaled[currentFrame]
    /\ cbState[currentFrame] = "recording" /\ frameOpen

\* ---------------------------------------------------------------- C33
\* the device offers every required device extension
SupportsRequired(d) == deviceExtensions \subseteq d.availableExtensions

\* C33 as claimed: after pickPhysicalDevice ran on a non-empty device list,
\* a return value of true means that the selected device supports all
\* required extensions and is a discrete GPU if any discrete GPU supports
\* them, and the return value is false when no device supports them.
C33_PickSuitableDevice ==
    (pickReturned /\ devices # <<>>) =>
        /\ pickRet =>
              /\ physicalDevice \in 1 .. Len(devices)
              /\ SupportsRequired(devices[physicalDevice])
              /\ (\E i \in 1 .. Len(devices) :
                     /\ SupportsRequired(devices[i])
                     /\ devices[i].deviceType = "VK_PHYSICAL_DEVICE_TYPE_DISCRETE_GPU")
                    => devices[physicalDevice].deviceType = "VK_PHYSICAL_DEVICE_TYPE_DISCRETE_GPU"
        /\ (\A i \in 1 .. Len(devices) : ~SupportsRequired(devices[i])) => ~pickRet

\* ---------------------------------------------------------------- C34
\* C34 as claimed: the log file is written only by the thread that holds
\* logMutex, and no two threads access the enabled-levels map at the same
\* time with at least one of them modifying it.
C34_LoggerMapExclusive ==
    /\ \A t \in Threads : tpc[t] = "log_write" => logMutex = t
    /\ \A t, u \in Threads :
          (t # u /\ WritesMap(t)) => ~(ReadsMap(u) \/ WritesMap(u))
====
